---- MODULE Spec2Model ----
(***************************************************************************)
(* Deep Research Agent: the LangGraph state machine of src/agent/graph.ts  *)
(* (five nodes, conditional edges, search retry loop), the state channels  *)
(* of src/types/agent.ts and the facade of src/agent/index.ts              *)
(* (initializeAgent, executeResearch, executeResearchStreaming).           *)
(*                                                                         *)
(* Conventions.  A string is a sequence of tokens (so that concatenation,  *)
(* trimming and emptiness are real operations).  A JavaScript object is a  *)
(* record whose DOMAIN holds exactly the keys that are set: a key that is  *)
(* absent reads as undefined.  A score is kept in tenths (0.7 is 7) and a  *)
(* hit's content is kept by its length.                                    *)
(***************************************************************************)
EXTENDS Integers, Sequences, FiniteSets, TLC

----------------------------------------------------------------------------
(* Bounds of the model *)

\* every search payload of at most MaxHits records is tried
MaxHits == 1
\* every index array of at most MaxIdxLen entries is tried as a filter reply
MaxIdxLen == 1
\* the engine executes a node at most MaxNodeExec times in one run (the graph
\* itself never executes one more than 3 times)
MaxNodeExec == 4

----------------------------------------------------------------------------
(* State *)

VARIABLES
    agentGraph,      \* index.ts: the module-level compiled graph (NullGraph is null)
    buildCount,      \* number of times buildResearchGraph has run
    mode,            \* "invoke" (executeResearch) or "stream" (executeResearchStreaming)
    queryArg,        \* the query the entry point was called with (<< >> before a call)
    st,              \* the channel values of the running graph
    pc,              \* the node the engine executes next, END, or "threw"
    inflight,        \* the collaborator call the running node awaits
    analysisSteps,   \* analyzeResults: its local accumulator
    sentQuery,       \* search: the query given to executeSearch
    chunks,          \* graph.stream: chunks produced and not yet consumed
    finalState,      \* the facade's local finalState (<< >> is null)
    onUpdateLog,     \* the values onUpdate was called with, in order
    outcome,         \* "none", "pending", "resolved" or "rejected"
    returned,        \* the value the facade resolved with
    thrown,          \* the message of the error the facade rejected with
    escaped,         \* an error that left a node function (<< >> is none)
    nodeExec,        \* executions of each node in this run
    llmCalls,        \* LLM calls made in this run
    searchCalls,     \* search calls made in this run
    nodeCalls,       \* collaborator calls made by the node execution that runs
                     \* or ran last
    insufficient,    \* Search executions of this run that failed validation
    lastStep,        \* the last node execution: node, update, call raised
    stepLog,         \* the node executions of this run that returned, in order
    unusable,        \* nodes of this run with a call that raised or whose reply
                     \* the node could not use
    cancelAt,        \* where a request to stop the run arrived (<< >> is never)
    runs,            \* concurrent calls of the facade: the state of each
    heap,            \* the arrays that concurrent runs hold by reference
    cli              \* the terminal interface: the React state of App and useAgent

vars ==
    <<agentGraph, buildCount, mode, queryArg, st, pc, inflight, analysisSteps,
      sentQuery, chunks, finalState, onUpdateLog, outcome, returned, thrown,
      escaped, nodeExec, llmCalls, searchCalls, nodeCalls, insufficient,
      lastStep, stepLog, unusable, cancelAt, runs, heap, cli>>

facadeVars == <<finalState, onUpdateLog, outcome, returned, thrown>>
graphVars == <<agentGraph, buildCount, mode, queryArg>>
concVars == <<runs, heap>>
cliVars == <<cli>>

----------------------------------------------------------------------------
(* Strings *)

WS == " "
EmptyStr == << >>

Str(tok) == <<tok>>

RECURSIVE TrimStart(_)
TrimStart(s) ==
    IF s # << >> /\ Head(s) = WS THEN TrimStart(Tail(s)) ELSE s

RECURSIVE TrimEnd(_)
TrimEnd(s) ==
    IF s # << >> /\ s[Len(s)] = WS THEN TrimEnd(SubSeq(s, 1, Len(s) - 1)) ELSE s

\* String.prototype.trim
Trim(s) == TrimEnd(TrimStart(s))

\* truthiness of an optional string field: set and not ""
TruthyStr(obj, key) == key \in DOMAIN obj /\ obj[key] # EmptyStr

----------------------------------------------------------------------------
(* Results of a computation that may throw *)

Ok(v) == [ok |-> TRUE, val |-> v]
Throw(m) == [ok |-> FALSE, msg |-> m]

\* error instanceof Error ? error.message : String(error)
ErrMsgs == {Str("429 rate limit"), EmptyStr}

TypeErrorMsg == Str("TypeError")

----------------------------------------------------------------------------
(* Collaborator outcomes *)

LLMRaise(m) == [kind |-> "raise", msg |-> m]
LLMReply(t) == [kind |-> "reply", text |-> t]

Queries == {Str("X 1 to X 2")}

\* replies of the query-enhancement prompt: plain text
RefineTexts == {<<WS, "X migration guide", WS>>, EmptyStr}
RefineOutcomes ==
    {LLMRaise(m) : m \in ErrMsgs} \cup {LLMReply(t) : t \in RefineTexts}

\* raw hit records of the search payload; score 0 stands for a missing score
RawKinds ==
    { [score |-> 9, len |-> 201], [score |-> 9, len |-> 200],
      [score |-> 7, len |-> 201], [score |-> 0, len |-> 50] }

\* longer payloads: two records that each meet one half of the quality rule,
\* a sufficient payload whose best record is not the first, and one of more
\* records than filterRelevance keeps, with equal scores among them
LongPayloads ==
    { <<[score |-> 9, len |-> 200], [score |-> 7, len |-> 201]>>,
      <<[score |-> 7, len |-> 201], [score |-> 9, len |-> 201]>>,
      <<[score |-> 7, len |-> 201], [score |-> 9, len |-> 300],
        [score |-> 0, len |-> 60], [score |-> 9, len |-> 201],
        [score |-> 8, len |-> 100], [score |-> 7, len |-> 60]>> }

RawPayloads == UNION { [1..n -> RawKinds] : n \in 0..MaxHits } \cup LongPayloads

SearchOutcomes ==
    {[kind |-> "raise", msg |-> m] : m \in ErrMsgs}
    \cup {[kind |-> "text"], [kind |-> "json_other"]}
    \cup {[kind |-> "json_array", items |-> p] : p \in RawPayloads}

\* replies of the relevance-filter prompt.  An index is kept in half units
\* (2 is the index 1, 1 is the non-integer 0.5) so that a reply holding a
\* number that is not an integer can be told from one that does not.
IdxItems == {-2, 1} \cup {2 * i : i \in 0..MaxHits}
\* longer replies: a reordering, more entries than are analyzed, the last
\* of them not an integer, and more entries than are listed as sources
LongIdxArrays == { <<2, 0>>, <<0, 0, 0, 1>>, <<10, 8, 6, 4, 2, 0>> }

IdxArrays == UNION { [1..n -> IdxItems] : n \in 0..MaxIdxLen } \cup LongIdxArrays

FilterTexts ==
    {[json |-> "invalid"], [json |-> "other"]}
    \cup {[json |-> "array", items |-> a] : a \in IdxArrays}
FilterOutcomes ==
    {LLMRaise(m) : m \in ErrMsgs} \cup {LLMReply(t) : t \in FilterTexts}

\* replies of the deep-analysis prompt
AnalysisTexts == {<<"upgrade the dependency", WS>>}
AnalysisOutcomes ==
    {LLMRaise(m) : m \in ErrMsgs} \cup {LLMReply(t) : t \in AnalysisTexts}

\* replies of the synthesis prompt: text that is not JSON, the JSON value
\* null, a JSON number, and JSON objects with some of the report's keys
SynthObjects ==
    { [summary |-> Str("guide"), migrationSteps |-> <<"step 1">>,
       breakingChanges |-> <<"change 1">>, examples |-> <<"example 1">>],
      [notes |-> <<"note 1">>] }
SynthTexts ==
    {[json |-> "invalid", raw |-> Str("plain prose")],
     [json |-> "invalid", raw |-> EmptyStr],
     [json |-> "null"], [json |-> "number"]}
    \cup {[json |-> "object", obj |-> o] : o \in SynthObjects}
SynthOutcomes ==
    {LLMRaise(m) : m \in ErrMsgs} \cup {LLMReply(t) : t \in SynthTexts}

----------------------------------------------------------------------------
(* JSON.parse *)

SyntaxErrorMsg == Str("SyntaxError")

JSONParse(text) ==
    IF text.json = "invalid" THEN Throw(SyntaxErrorMsg) ELSE Ok(text)

----------------------------------------------------------------------------
(* Program constants *)

\* executeSearch drops content of length <= 50
MinContentLength == 50
\* result.score || 0.5
DefaultScore == 5
\* validateSearchResults: score > 0.7
QualityScore == 7
\* validateSearchResults: content.length > 200
QualityLength == 200
\* search: state.searchAttempts < 2
MaxSearchAttempts == 2
\* filterRelevance: slice(0, 5)
TopResults == 5
\* analyzeResults: slice(0, 3)
AnalyzeTop == 3
\* synthesizeFindings: slice(0, 5)
MaxSources == 5

Min(a, b) == IF a < b THEN a ELSE b

\* Array.prototype.slice(0, n)
Slice(seq, n) == SubSeq(seq, 1, Min(n, Len(seq)))

----------------------------------------------------------------------------
(* src/agent/tools/search.ts *)

\* the SearchResult built from the raw record at position i of the payload
ToSearchResult(raw, i) ==
    [title |-> i, url |-> i, len |-> raw.len,
     score |-> IF raw.score = 0 THEN DefaultScore ELSE raw.score]

executeSearchTry(out) ==
    IF out.kind = "raise" THEN Throw(out.msg)
    ELSE IF out.kind = "text" THEN Throw(Str("Invalid search results format"))
    ELSE IF out.kind = "json_other" THEN Throw(TypeErrorMsg)
    ELSE LET searchResults == [i \in 1..Len(out.items) |-> ToSearchResult(out.items[i], i)]
         IN  Ok(SelectSeq(searchResults, LAMBDA r : r.len > MinContentLength))

executeSearch(out) ==
    LET r == executeSearchTry(out)
    IN  IF r.ok THEN r ELSE Throw(Str("Search failed: ") \o r.msg)

\* validateSearchResults testing the score and the length on any results
validateSearchResults_Separate(results) ==
    IF Len(results) = 0 THEN FALSE
    ELSE /\ \E i \in 1..Len(results) : results[i].score > QualityScore
         /\ \E i \in 1..Len(results) : results[i].len > QualityLength

validateSearchResults(results) ==
    IF Len(results) = 0 THEN FALSE
    ELSE \E i \in 1..Len(results) :
            results[i].score > QualityScore /\ results[i].len > QualityLength

----------------------------------------------------------------------------
(* src/agent/graph.ts: the nodes *)

SUFFIX == Str(" official documentation breaking changes")

HumanMessage(c) == [role |-> "human", content |-> c]
AIMessage(c) == [role |-> "ai", content |-> c]

ErrorUpdate(text) == [status |-> "error", error |-> text]

(* parseQuery *)

parseQueryTry(state, resp) ==
    IF resp.kind = "raise" THEN Throw(resp.msg)
    ELSE LET enhancedQuery == Trim(resp.text)
         IN  Ok([enhancedQuery |-> enhancedQuery,
                 status |-> "searching",
                 messages |-> <<HumanMessage(state.query), AIMessage(enhancedQuery)>>])

\* parseQuery storing the bare error.message
parseQuery_NoPrefix(state, resp) ==
    LET r == parseQueryTry(state, resp)
    IN  IF r.ok THEN r
        ELSE Ok(ErrorUpdate(r.msg))

\* parseQuery returning the enhanced query as the query as well
parseQuery_OverwritesQuery(state, resp) ==
    LET r == parseQueryTry(state, resp)
    IN  IF r.ok THEN Ok([query |-> r.val.enhancedQuery] @@ r.val)
        ELSE Ok(ErrorUpdate(Str("Query parsing failed: ") \o r.msg))

\* parseQuery whose catch block falls back to the caller's query and goes on
parseQuery_FallbackOnError(state, resp) ==
    LET r == parseQueryTry(state, resp)
    IN  IF r.ok THEN r
        ELSE Ok([enhancedQuery |-> state.query, status |-> "searching"])

parseQuery(state, resp) ==
    LET r == parseQueryTry(state, resp)
    IN  IF r.ok THEN r
        ELSE Ok(ErrorUpdate(Str("Query parsing failed: ") \o r.msg))

(* search *)

\* const query = state.enhancedQuery || state.query
SearchQuery(state) ==
    IF TruthyStr(state, "enhancedQuery") THEN state.enhancedQuery ELSE state.query

\* searchTry whose retry leaves searchAttempts as it is
searchTry_NoIncrement(state, out) ==
    LET r == executeSearch(out)
    IN  IF ~r.ok THEN r
        ELSE IF ~validateSearchResults(r.val)
        THEN IF state.searchAttempts < MaxSearchAttempts
             THEN Ok([status |-> "parsing_query",
                      enhancedQuery |-> SearchQuery(state) \o SUFFIX])
             ELSE Ok(ErrorUpdate(Str("Could not find sufficient search results")))
        ELSE Ok([searchResults |-> r.val, status |-> "filtering_results"])

\* searchTry with the retry test written <= instead of <
searchTry_LE(state, out) ==
    LET r == executeSearch(out)
    IN  IF ~r.ok THEN r
        ELSE IF ~validateSearchResults(r.val)
        THEN IF state.searchAttempts <= MaxSearchAttempts
             THEN Ok([searchAttempts |-> state.searchAttempts + 1,
                      status |-> "parsing_query",
                      enhancedQuery |-> SearchQuery(state) \o SUFFIX])
             ELSE Ok(ErrorUpdate(Str("Could not find sufficient search results")))
        ELSE Ok([searchResults |-> r.val, status |-> "filtering_results"])

searchTry(state, out) ==
    LET r == executeSearch(out)
    IN  IF ~r.ok THEN r
        ELSE IF ~validateSearchResults(r.val)
        THEN IF state.searchAttempts < MaxSearchAttempts
             THEN Ok([searchAttempts |-> state.searchAttempts + 1,
                      status |-> "parsing_query",
                      enhancedQuery |-> SearchQuery(state) \o SUFFIX])
             ELSE Ok(ErrorUpdate(Str("Could not find sufficient search results")))
        ELSE Ok([searchResults |-> r.val, status |-> "filtering_results"])

\* search whose catch block retries while searchAttempts allows it
search_RetryOnFailure(state, out) ==
    LET r == searchTry(state, out)
    IN  IF r.ok THEN r
        ELSE IF state.searchAttempts < MaxSearchAttempts
        THEN Ok([searchAttempts |-> state.searchAttempts + 1, status |-> "parsing_query"])
        ELSE Ok(ErrorUpdate(Str("Search failed: ") \o r.msg))

search(state, out) ==
    LET r == searchTry(state, out)
    IN  IF r.ok THEN r
        ELSE Ok(ErrorUpdate(Str("Search failed: ") \o r.msg))

(* filterRelevance *)

\* what an array holds at a position that was read out of range or with a
\* number that is not an integer
Undefined == [undefined |-> TRUE]

\* the comparator b.score - a.score puts position j before position i when
\* its score is greater; Array.prototype.sort is stable, so of two equal
\* scores the earlier position stays first
SortsBefore(results, j, i) ==
    \/ results[j].score > results[i].score
    \/ results[j].score = results[i].score /\ j < i

\* the positions 1..n of results in the order the sort leaves them
SortedPositions(results, n) ==
    [k \in 1..n |->
        CHOOSE i \in 1..n :
            Cardinality({j \in 1..n : SortsBefore(results, j, i)}) = k - 1]

\* results.sort((a, b) => b.score - a.score)
SortByScoreDesc(results) ==
    LET pos == SortedPositions(results, Len(results))
    IN  [k \in 1..Len(results) |-> results[pos[k]]]

\* the 0-based indices of the results by descending score, in half units
TopIndices(results) ==
    LET pos == SortedPositions(results, Len(results))
    IN  Slice([k \in 1..Len(results) |-> 2 * (pos[k] - 1)], TopResults)

\* idx >= 0 && idx < state.searchResults.length
IdxInRange(results, h) == h >= 0 /\ h < 2 * Len(results)

\* state.searchResults[idx]
ResultAt(results, h) ==
    IF h % 2 = 0 /\ h >= 0 /\ h < 2 * Len(results) THEN results[(h \div 2) + 1]
    ELSE Undefined

\* !state.searchResults || state.searchResults.length === 0
NoSearchResults(state) ==
    "searchResults" \notin DOMAIN state \/ Len(state.searchResults) = 0

filterRelevanceTry(state, resp) ==
    IF resp.kind = "raise" THEN Throw(resp.msg)
    ELSE LET parsed == JSONParse(resp.text)
             relevantIndices ==
                 IF parsed.ok THEN parsed.val
                 ELSE [json |-> "array", items |-> TopIndices(state.searchResults)]
         IN  IF relevantIndices.json # "array" THEN Throw(TypeErrorMsg)
             ELSE LET kept == SelectSeq(relevantIndices.items,
                                        LAMBDA h : IdxInRange(state.searchResults, h))
                      relevantResults ==
                          [k \in 1..Len(kept) |-> ResultAt(state.searchResults, kept[k])]
                  IN  Ok([relevantResults |-> relevantResults, status |-> "analyzing"])

\* filterRelevance whose catch block takes the first results as they stand
filterRelevance_Unsorted(state, resp) ==
    LET r == filterRelevanceTry(state, resp)
    IN  IF r.ok THEN r
        ELSE Ok([relevantResults |-> Slice(state.searchResults, TopResults),
                 status |-> "analyzing"])

\* filterRelevance whose catch block reports the failure as the other nodes do
filterRelevance_ErrorOnCatch(state, resp) ==
    LET r == filterRelevanceTry(state, resp)
    IN  IF r.ok THEN r
        ELSE Ok(ErrorUpdate(Str("Relevance filtering failed: ") \o r.msg))

filterRelevance(state, resp) ==
    LET r == filterRelevanceTry(state, resp)
    IN  IF r.ok THEN r
        ELSE Ok([relevantResults |->
                     Slice(SortByScoreDesc(state.searchResults), TopResults),
                 status |-> "analyzing"])

\* the state object the node was given, as it is when the node returns: the
\* catch branch sorts state.searchResults in place
filterRelevanceInput(state, resp) ==
    IF filterRelevanceTry(state, resp).ok THEN state
    ELSE [state EXCEPT !.searchResults = SortByScoreDesc(state.searchResults)]

(* analyzeResults *)

\* the guard of analyzeResults without its test of the length
NoRelevantResults_UnsetOnly(state) == "relevantResults" \notin DOMAIN state

\* !state.relevantResults || state.relevantResults.length === 0
NoRelevantResults(state) ==
    "relevantResults" \notin DOMAIN state \/ Len(state.relevantResults) = 0

\* the loop of analyzeResults going over every relevant result
resultsToAnalyze_All(state) == state.relevantResults

resultsToAnalyze(state) == Slice(state.relevantResults, AnalyzeTop)

AnalysisStep(result, text) ==
    [step |-> result.title, findings |-> Trim(text), confidence |-> result.score]

\* a turn of the loop that notes empty findings when its LLM call raises
analyzeTurnTry_SkipOnRaise(result, resp) ==
    IF result = Undefined THEN Throw(TypeErrorMsg)
    ELSE IF resp.kind = "raise" THEN Ok(AnalysisStep(result, EmptyStr))
    ELSE Ok(AnalysisStep(result, resp.text))

\* one turn of the for loop, up to and including its LLM call: reading
\* result.title of an undefined entry throws before the call is made
analyzeTurnTry(result, resp) ==
    IF result = Undefined THEN Throw(TypeErrorMsg)
    ELSE IF resp.kind = "raise" THEN Throw(resp.msg)
    ELSE Ok(AnalysisStep(result, resp.text))

\* analyzeResults whose catch block throws the error again
analyzeCatch_Rethrow(msg) == Throw(msg)

analyzeCatch(msg) == Ok(ErrorUpdate(Str("Analysis failed: ") \o msg))

analyzeDone(steps) ==
    Ok([analysisSteps |-> steps, status |-> "synthesizing"])

(* synthesizeFindings *)

\* !state.analysisSteps || state.analysisSteps.length === 0
NoAnalyses(state) ==
    "analysisSteps" \notin DOMAIN state \/ Len(state.analysisSteps) = 0

\* value || fallback for an array-valued key: an array is always truthy
ArrayOr(obj, key, fallback) == IF key \in DOMAIN obj THEN obj[key] ELSE fallback

synthesizeFindingsTry(state, resp) ==
    IF resp.kind = "raise" THEN Throw(resp.msg)
    ELSE LET parsed == JSONParse(resp.text)
             shown == IF "relevantResults" \in DOMAIN state
                      THEN Slice(state.relevantResults, MaxSources) ELSE << >>
         IN  IF \E k \in 1..Len(shown) : shown[k] = Undefined THEN Throw(TypeErrorMsg)
             ELSE IF parsed.ok /\ parsed.val.json = "null" THEN Throw(TypeErrorMsg)
             ELSE LET synthesis ==
                          IF ~parsed.ok
                          THEN [summary |-> resp.text.raw, migrationSteps |-> << >>,
                                breakingChanges |-> << >>, examples |-> << >>]
                          ELSE IF parsed.val.json = "object" THEN parsed.val.obj
                          ELSE << >>
                      findings ==
                          [summary |-> IF TruthyStr(synthesis, "summary")
                                       THEN synthesis.summary
                                       ELSE Str("Migration guide synthesis"),
                           migrationSteps |-> ArrayOr(synthesis, "migrationSteps", << >>),
                           breakingChanges |-> ArrayOr(synthesis, "breakingChanges", << >>),
                           examples |-> ArrayOr(synthesis, "examples",
                                                ArrayOr(synthesis, "notes", << >>)),
                           sources |-> [k \in 1..Len(shown) |-> shown[k].url]]
                  IN  Ok([findings |-> findings, status |-> "complete"])

\* synthesizeFindings whose catch block reports the status complete
synthesizeFindings_CompleteOnError(state, resp) ==
    LET r == synthesizeFindingsTry(state, resp)
    IN  IF r.ok THEN r
        ELSE Ok([status |-> "complete", error |-> Str("Synthesis failed: ") \o r.msg])

\* synthesizeFindings listing the url of every relevant result as a source
synthesizeFindings_AllSources(state, resp) ==
    LET r == synthesizeFindingsTry(state, resp)
        all == [k \in 1..Len(state.relevantResults) |->
                   IF state.relevantResults[k] = Undefined THEN Undefined
                   ELSE state.relevantResults[k].url]
    IN  IF r.ok THEN Ok([r.val EXCEPT !.findings.sources = all])
        ELSE Ok(ErrorUpdate(Str("Synthesis failed: ") \o r.msg))

synthesizeFindings(state, resp) ==
    LET r == synthesizeFindingsTry(state, resp)
    IN  IF r.ok THEN r
        ELSE Ok(ErrorUpdate(Str("Synthesis failed: ") \o r.msg))

----------------------------------------------------------------------------
(* src/types/agent.ts: the state channels *)

\* channels that have a default value
ChannelDefaults == [messages |-> << >>, status |-> "idle", searchAttempts |-> 0]

\* the channels with messages keeping the last value written, as the others do
ApplyUpdate_ReplaceMessages(state, update) == update @@ state

\* AgentStateAnnotation: messages concatenates, every other channel keeps
\* the last value written; a key the update does not hold is left alone
ApplyUpdate(state, update) ==
    LET merged == update @@ state
    IN  IF "messages" \in DOMAIN update
        THEN [merged EXCEPT !.messages = state.messages \o update.messages]
        ELSE merged

----------------------------------------------------------------------------
(* src/agent/graph.ts: buildResearchGraph *)

END == "__end__"
Nodes == {"query_parser", "search", "relevance_filter", "deep_analysis", "synthesis"}

\* the edges with search wired to deep_analysis, leaving relevance_filter out
RouteAfter_SkipFilter(node, state) ==
    CASE node = "query_parser" ->
            IF state.status = "error" THEN END ELSE "search"
      [] node = "search" ->
            IF state.status = "error" THEN END
            ELSE IF state.status = "parsing_query" THEN "query_parser"
            ELSE "deep_analysis"
      [] node = "relevance_filter" ->
            IF state.status = "error" THEN END ELSE "deep_analysis"
      [] node = "deep_analysis" ->
            IF state.status = "error" THEN END ELSE "synthesis"
      [] node = "synthesis" -> END

\* the edges with the error test missing after search
RouteAfter_NoErrorCheck(node, state) ==
    CASE node = "query_parser" ->
            IF state.status = "error" THEN END ELSE "search"
      [] node = "search" ->
            IF state.status = "parsing_query" THEN "query_parser"
            ELSE "relevance_filter"
      [] node = "relevance_filter" ->
            IF state.status = "error" THEN END ELSE "deep_analysis"
      [] node = "deep_analysis" ->
            IF state.status = "error" THEN END ELSE "synthesis"
      [] node = "synthesis" -> END

\* the edges of an engine that stops advancing once a stop was requested
RouteAfter_StopOnCancel(node, state) ==
    IF cancelAt # << >> THEN END
    ELSE CASE node = "query_parser" ->
                 IF state.status = "error" THEN END ELSE "search"
           [] node = "search" ->
                 IF state.status = "error" THEN END
                 ELSE IF state.status = "parsing_query" THEN "query_parser"
                 ELSE "relevance_filter"
           [] node = "relevance_filter" ->
                 IF state.status = "error" THEN END ELSE "deep_analysis"
           [] node = "deep_analysis" ->
                 IF state.status = "error" THEN END ELSE "synthesis"
           [] node = "synthesis" -> END

\* the conditional edge (or plain edge) leaving a node
RouteAfter(node, state) ==
    CASE node = "query_parser" ->
            IF state.status = "error" THEN END ELSE "search"
      [] node = "search" ->
            IF state.status = "error" THEN END
            ELSE IF state.status = "parsing_query" THEN "query_parser"
            ELSE "relevance_filter"
      [] node = "relevance_filter" ->
            IF state.status = "error" THEN END ELSE "deep_analysis"
      [] node = "deep_analysis" ->
            IF state.status = "error" THEN END ELSE "synthesis"
      [] node = "synthesis" -> END

----------------------------------------------------------------------------
(* src/agent/index.ts: the facade *)

\* the initial state without a status, left to the default of the channel
InitialState_NoStatus(query) == [query |-> query, searchAttempts |-> 0]

\* const initialState = { query, status: "parsing_query", searchAttempts: 0 }
InitialState(query) ==
    [query |-> query, status |-> "parsing_query", searchAttempts |-> 0]

NullGraph == 0

\* initializeAgent building the graph on every call
initializeAgent_AlwaysBuild(graph, builds) ==
    [graph |-> builds + 1, builds |-> builds + 1]

\* initializeAgent: the graph is built when agentGraph is null, and the value
\* of agentGraph is returned.  A compiled graph is named by the number of the
\* buildResearchGraph call that made it.
initializeAgent(graph, builds) ==
    IF graph = NullGraph
    THEN [graph |-> builds + 1, builds |-> builds + 1]
    ELSE [graph |-> graph, builds |-> builds]

\* the facade returning finalState without looking at its status
Settle_NoCheck(final) == [outcome |-> "resolved", returned |-> final]

\* what both entry points do with finalState once the graph has ended
Settle(final) ==
    IF final.status = "error"
    THEN [outcome |-> "rejected",
          thrown |-> IF TruthyStr(final, "error") THEN final.error
                     ELSE Str("Unknown error occurred")]
    ELSE [outcome |-> "resolved", returned |-> final]

----------------------------------------------------------------------------
(* src/cli: App.tsx and the useAgent hook *)

(* The React state of the terminal interface, one record: query and
   hasSubmitted of App, state, isLoading and error of useAgent (<< >> is
   null), and mounted, which exit() ends.  Ink renders after every handler and
   after every state change made from a callback, so a handler reads the state
   as the changes before it left it. *)

CliInit ==
    [mounted |-> TRUE, query |-> EmptyStr, hasSubmitted |-> FALSE,
     state |-> << >>, isLoading |-> FALSE, error |-> << >>]

\* App renders QueryInput when nothing was submitted, and QueryInput renders
\* its TextInput when it is not disabled
TextInputShown(c) == c.mounted /\ ~c.hasSubmitted /\ ~c.isLoading

\* texts the user types
TypedTexts == {EmptyStr, <<WS>>} \cup {<<WS>> \o q \o <<WS>> : q \in Queries}

\* useAgent.reset
reset(c) == [c EXCEPT !.state = << >>, !.error = << >>, !.isLoading = FALSE]

\* the Ctrl+R branch of the key handler resetting whether or not a query loads
onCtrlR_NoLoadingCheck(c) ==
    [reset(c) EXCEPT !.query = EmptyStr, !.hasSubmitted = FALSE]

\* the Ctrl+R branch of the key handler of App
onCtrlR(c) ==
    IF ~c.isLoading
    THEN [reset(c) EXCEPT !.query = EmptyStr, !.hasSubmitted = FALSE]
    ELSE c

\* the Ctrl+C branch: exit() unmounts the interface
onCtrlC(c) == [c EXCEPT !.mounted = FALSE]

\* QueryInput.handleSubmit accepts a text that is not blank
SubmitAccepted(c) == Len(Trim(c.query)) > 0

\* App.handleSubmit and executeQuery up to the call of executeResearchStreaming
executeQueryBegin(c) ==
    [c EXCEPT !.hasSubmitted = TRUE, !.isLoading = TRUE,
              !.error = << >>, !.state = << >>]

\* a state setter called after exit() changes nothing
IfMounted(c, d) == IF c.mounted THEN d ELSE c

\* the onUpdate callback of executeQuery: setState(updatedState)
onUpdate(c, updatedState) == IfMounted(c, [c EXCEPT !.state = <<updatedState>>])

\* executeQuery after the await: the catch and finally blocks
executeQueryEnd(c, result, message) ==
    IfMounted(c, [c EXCEPT !.error = IF result = "rejected" THEN <<message>> ELSE @,
                           !.isLoading = FALSE])

----------------------------------------------------------------------------
(* Initial state *)

NoStep == [node |-> "none"]

\* a node execution that made no collaborator call
NoCall == [kind |-> "none"]

RunIds == {1, 2}
IdleRun == [phase |-> "idle"]

Init ==
    /\ agentGraph = NullGraph
    /\ buildCount = 0
    /\ mode = "none"
    /\ queryArg = << >>
    /\ st = << >>
    /\ pc = "idle"
    /\ inflight = "none"
    /\ analysisSteps = << >>
    /\ sentQuery = << >>
    /\ chunks = << >>
    /\ finalState = << >>
    /\ onUpdateLog = << >>
    /\ outcome = "none"
    /\ returned = << >>
    /\ thrown = << >>
    /\ escaped = << >>
    /\ nodeExec = [n \in Nodes |-> 0]
    /\ llmCalls = 0
    /\ searchCalls = 0
    /\ nodeCalls = 0
    /\ insufficient = 0
    /\ lastStep = NoStep
    /\ stepLog = << >>
    /\ unusable = {}
    /\ cancelAt = << >>
    /\ runs = [r \in RunIds |-> IdleRun]
    /\ heap = << >>
    /\ cli = CliInit

----------------------------------------------------------------------------
(* The facade starts a run *)

\* initializeAgent, then the initial state goes into the graph, whose entry
\* edge is START -> query_parser
BeginRun(m, query) ==
    /\ outcome \in {"none", "resolved", "rejected"}
    /\ agentGraph' = initializeAgent(agentGraph, buildCount).graph
    /\ buildCount' = initializeAgent(agentGraph, buildCount).builds
    /\ mode' = m
    /\ queryArg' = query
    /\ st' = ApplyUpdate(ChannelDefaults, InitialState(query))
    /\ pc' = "query_parser"
    /\ inflight' = "none"
    /\ analysisSteps' = << >>
    /\ sentQuery' = << >>
    /\ chunks' = << >>
    /\ finalState' = << >>
    /\ onUpdateLog' = << >>
    /\ outcome' = "pending"
    /\ returned' = << >>
    /\ thrown' = << >>
    /\ escaped' = << >>
    /\ nodeExec' = [n \in Nodes |-> 0]
    /\ llmCalls' = 0
    /\ searchCalls' = 0
    /\ nodeCalls' = 0
    /\ insufficient' = 0
    /\ lastStep' = NoStep
    /\ stepLog' = << >>
    /\ unusable' = {}
    /\ cancelAt' = << >>
    /\ UNCHANGED concVars

\* an entry point is called by a caller other than the terminal interface
Start(m, query) == BeginRun(m, query) /\ UNCHANGED cliVars

----------------------------------------------------------------------------
(* Collaborator outcomes a node can use *)

\* an index the relevance-filter prompt asks for: an integer position of
\* state.searchResults
ValidIndex(results, h) == h % 2 = 0 /\ h >= 0 /\ h < 2 * Len(results)

\* resp is an outcome node can use when given state: the call returned, and
\*   search: the payload is a JSON array;
\*   relevance_filter: the reply is a JSON array of integers, one of them
\*     at least a position of state.searchResults;
\*   synthesis: the reply is not the JSON value null;
\*   query_parser, deep_analysis: any text
UsableOutcome(node, state, resp) ==
    CASE resp.kind = "none" -> TRUE
      [] resp.kind = "raise" -> FALSE
      [] node = "search" -> resp.kind = "json_array"
      [] node = "relevance_filter" ->
            /\ resp.text.json = "array"
            /\ \A k \in 1..Len(resp.text.items) : resp.text.items[k] % 2 = 0
            /\ \E k \in 1..Len(resp.text.items) :
                   ValidIndex(state.searchResults, resp.text.items[k])
      [] node = "synthesis" -> resp.text.json # "null"
      [] OTHER -> TRUE

----------------------------------------------------------------------------
(* The engine *)

\* a node function starts to run
Enter(node) ==
    /\ pc = node
    /\ inflight = "none"
    /\ nodeExec[node] < MaxNodeExec
    /\ nodeExec' = [nodeExec EXCEPT ![node] = @ + 1]

\* a node function has returned (or thrown): the update is merged into the
\* channels, the edge leaving the node is taken, and a streaming run emits
\* the chunk { [node]: update }.  input is the state object the node was given,
\* as the node left it; resp is the outcome of the node's last collaborator
\* call (NoCall when it made none).
Complete(node, input, res, resp) ==
    /\ inflight' = "none"
    /\ nodeCalls' = IF inflight = "none" THEN 0 ELSE nodeCalls
    /\ analysisSteps' = << >>
    /\ lastStep' = [node |-> node, raised |-> resp.kind = "raise", ok |-> res.ok,
                    update |-> IF res.ok THEN res.val ELSE << >>, resp |-> resp]
    /\ unusable' = IF UsableOutcome(node, st, resp) THEN unusable
                   ELSE unusable \cup {node}
    /\ IF res.ok
       THEN LET next == ApplyUpdate(input, res.val)
            IN  /\ st' = next
                /\ pc' = RouteAfter(node, next)
                /\ chunks' = IF mode = "stream"
                             THEN Append(chunks, [node |-> node, values |-> res.val])
                             ELSE chunks
                /\ stepLog' = Append(stepLog, [node |-> node, update |-> res.val])
                /\ escaped' = escaped
       ELSE /\ st' = input
            /\ pc' = "threw"
            /\ chunks' = chunks
            /\ stepLog' = stepLog
            /\ escaped' = <<res.msg>>

\* the node awaits a collaborator call
Await(call) ==
    /\ inflight' = call
    /\ nodeCalls' = IF inflight = "none" THEN 1 ELSE nodeCalls + 1
    /\ UNCHANGED <<st, pc, chunks, escaped, lastStep, stepLog, unusable>>

ParseQueryInvoke ==
    /\ Enter("query_parser")
    /\ Await("llm")
    /\ llmCalls' = llmCalls + 1
    /\ UNCHANGED <<cliVars, concVars, graphVars, facadeVars, analysisSteps, sentQuery, searchCalls,
                   insufficient, cancelAt>>

ParseQueryResume(resp) ==
    /\ pc = "query_parser"
    /\ inflight = "llm"
    /\ Complete("query_parser", st, parseQuery(st, resp), resp)
    /\ UNCHANGED <<cliVars, concVars, graphVars, facadeVars, sentQuery, nodeExec, llmCalls,
                   searchCalls, insufficient, cancelAt>>

SearchInvoke ==
    /\ Enter("search")
    /\ Await("search")
    /\ sentQuery' = SearchQuery(st)
    /\ searchCalls' = searchCalls + 1
    /\ UNCHANGED <<cliVars, concVars, graphVars, facadeVars, analysisSteps, llmCalls, insufficient,
                   cancelAt>>

SearchResume(out) ==
    /\ pc = "search"
    /\ inflight = "search"
    /\ Complete("search", st, search(st, out), out)
    /\ insufficient' =
          IF executeSearch(out).ok /\ ~validateSearchResults(executeSearch(out).val)
          THEN insufficient + 1 ELSE insufficient
    /\ UNCHANGED <<cliVars, concVars, graphVars, facadeVars, sentQuery, nodeExec, llmCalls,
                   searchCalls, cancelAt>>

FilterInvoke ==
    /\ Enter("relevance_filter")
    /\ IF NoSearchResults(st)
       THEN /\ Complete("relevance_filter", st,
                        Ok(ErrorUpdate(Str("No search results to filter"))), NoCall)
            /\ llmCalls' = llmCalls
       ELSE /\ Await("llm")
            /\ llmCalls' = llmCalls + 1
            /\ analysisSteps' = analysisSteps
    /\ UNCHANGED <<cliVars, concVars, graphVars, facadeVars, sentQuery, searchCalls, insufficient,
                   cancelAt>>

FilterResume(resp) ==
    /\ pc = "relevance_filter"
    /\ inflight = "llm"
    /\ Complete("relevance_filter", filterRelevanceInput(st, resp),
                filterRelevance(st, resp), resp)
    /\ UNCHANGED <<cliVars, concVars, graphVars, facadeVars, sentQuery, nodeExec, llmCalls,
                   searchCalls, insufficient, cancelAt>>

\* analyzeResults between two awaits: with the steps gathered so far, either
\* the loop is over and the node returns, or reading the next entry throws,
\* or the next LLM call is made
AnalyzeAdvance(state, steps) ==
    LET todo == resultsToAnalyze(state)
    IN  IF Len(steps) = Len(todo) THEN [next |-> "return", res |-> analyzeDone(steps)]
        ELSE LET turn == analyzeTurnTry(todo[Len(steps) + 1], LLMReply(EmptyStr))
             IN  IF todo[Len(steps) + 1] = Undefined
                 THEN [next |-> "return", res |-> analyzeCatch(turn.msg)]
                 ELSE [next |-> "call"]

AnalyzeInvoke ==
    /\ Enter("deep_analysis")
    /\ IF NoRelevantResults(st)
       THEN /\ Complete("deep_analysis", st,
                        Ok(ErrorUpdate(Str("No relevant results to analyze"))), NoCall)
            /\ llmCalls' = llmCalls
       ELSE LET adv == AnalyzeAdvance(st, << >>)
            IN  IF adv.next = "return"
                THEN /\ Complete("deep_analysis", st, adv.res, NoCall)
                     /\ llmCalls' = llmCalls
                ELSE /\ Await("llm")
                     /\ analysisSteps' = << >>
                     /\ llmCalls' = llmCalls + 1
    /\ UNCHANGED <<cliVars, concVars, graphVars, facadeVars, sentQuery, searchCalls, insufficient,
                   cancelAt>>

AnalyzeResume(resp) ==
    /\ pc = "deep_analysis"
    /\ inflight = "llm"
    /\ LET todo == resultsToAnalyze(st)
           turn == analyzeTurnTry(todo[Len(analysisSteps) + 1], resp)
       IN  IF ~turn.ok
           THEN /\ Complete("deep_analysis", st, analyzeCatch(turn.msg), resp)
                /\ llmCalls' = llmCalls
           ELSE LET steps == Append(analysisSteps, turn.val)
                    adv == AnalyzeAdvance(st, steps)
                IN  IF adv.next = "return"
                    THEN /\ Complete("deep_analysis", st, adv.res, resp)
                         /\ llmCalls' = llmCalls
                    ELSE /\ Await("llm")
                         /\ analysisSteps' = steps
                         /\ llmCalls' = llmCalls + 1
    /\ UNCHANGED <<cliVars, concVars, graphVars, facadeVars, sentQuery, nodeExec, searchCalls,
                   insufficient, cancelAt>>

SynthesizeInvoke ==
    /\ Enter("synthesis")
    /\ IF NoAnalyses(st)
       THEN /\ Complete("synthesis", st,
                        Ok(ErrorUpdate(Str("No analyses to synthesize"))), NoCall)
            /\ llmCalls' = llmCalls
       ELSE /\ Await("llm")
            /\ llmCalls' = llmCalls + 1
            /\ analysisSteps' = analysisSteps
    /\ UNCHANGED <<cliVars, concVars, graphVars, facadeVars, sentQuery, searchCalls, insufficient,
                   cancelAt>>

SynthesizeResume(resp) ==
    /\ pc = "synthesis"
    /\ inflight = "llm"
    /\ Complete("synthesis", st, synthesizeFindings(st, resp), resp)
    /\ UNCHANGED <<cliVars, concVars, graphVars, facadeVars, sentQuery, nodeExec, llmCalls,
                   searchCalls, insufficient, cancelAt>>

engineVars ==
    <<st, pc, inflight, analysisSteps, sentQuery, escaped, nodeExec, llmCalls,
      searchCalls, nodeCalls, insufficient, lastStep, stepLog, unusable>>

----------------------------------------------------------------------------
(* The facade consumes the run *)

\* the for await loop not passing on an update whose status is error
StreamConsume_SkipError ==
    /\ mode = "stream"
    /\ outcome = "pending"
    /\ chunks # << >>
    /\ LET values == Head(chunks).values
       IN  /\ finalState' = <<values>>
           /\ onUpdateLog' = IF values.status = "error" THEN onUpdateLog
                             ELSE Append(onUpdateLog, values)
    /\ chunks' = Tail(chunks)
    /\ UNCHANGED <<cliVars, concVars, graphVars, engineVars, outcome, returned, thrown, cancelAt>>

\* executeResearchStreaming: one turn of the for await loop, the effect of
\* the onUpdate callback on its owner left open
ForAwaitTurn ==
    /\ mode = "stream"
    /\ outcome = "pending"
    /\ chunks # << >>
    /\ LET values == Head(chunks).values
       IN  /\ finalState' = <<values>>
           /\ onUpdateLog' = Append(onUpdateLog, values)
    /\ chunks' = Tail(chunks)
    /\ UNCHANGED <<concVars, graphVars, engineVars, outcome, returned, thrown, cancelAt>>

\* one turn of the loop of a call whose callback only records its argument
StreamConsume == ForAwaitTurn /\ UNCHANGED cliVars

\* the facade acts on what the graph left it with
Finish(final) ==
    LET r == Settle(final)
    IN  /\ outcome' = r.outcome
        /\ returned' = IF r.outcome = "resolved" THEN <<r.returned>> ELSE << >>
        /\ thrown' = IF r.outcome = "rejected" THEN r.thrown ELSE << >>

\* an error thrown inside the try block is rethrown by the catch block
Rethrow(msg) ==
    /\ outcome' = "rejected"
    /\ returned' = << >>
    /\ thrown' = msg

\* executeResearch after await graph.invoke(initialState)
InvokeSettle ==
    /\ mode = "invoke"
    /\ outcome = "pending"
    /\ pc \in {END, "threw"}
    /\ IF pc = "threw"
       THEN /\ Rethrow(escaped[1])
            /\ finalState' = finalState
       ELSE /\ finalState' = <<st>>
            /\ Finish(st)
    /\ UNCHANGED <<cliVars, concVars, graphVars, engineVars, chunks, onUpdateLog, cancelAt>>

\* executeResearchStreaming after the for await loop, up to its return or
\* throw
AfterForAwait ==
    /\ mode = "stream"
    /\ outcome = "pending"
    /\ pc \in {END, "threw"}
    /\ chunks = << >>
    /\ IF pc = "threw" THEN Rethrow(escaped[1])
       ELSE IF finalState = << >>
       THEN Rethrow(Str("Graph execution produced no final state"))
       ELSE Finish(finalState[1])
    /\ UNCHANGED <<concVars, graphVars, engineVars, chunks, finalState, onUpdateLog, cancelAt>>

\* the call settles towards a caller other than the terminal interface
StreamSettle == AfterForAwait /\ UNCHANGED cliVars

----------------------------------------------------------------------------
(* The environment *)

\* the user asks to stop (Ctrl+C) while a collaborator call is pending: the
\* request is noted with the node that is waiting and the number of the call
\* it waits for.  Nothing in the agent reads the request.
RaiseCancel ==
    /\ outcome = "pending"
    /\ inflight # "none"
    /\ cancelAt = << >>
    /\ cancelAt' = <<pc, Len(analysisSteps) + 1>>
    /\ UNCHANGED <<cliVars, concVars, graphVars, engineVars, facadeVars, chunks>>

----------------------------------------------------------------------------

\* the steps of the graph engine: a node runs up to its next collaborator
\* call, or a collaborator call returns or raises
EngineNext ==
    \/ ParseQueryInvoke
    \/ \E resp \in RefineOutcomes : ParseQueryResume(resp)
    \/ SearchInvoke
    \/ \E out \in SearchOutcomes : SearchResume(out)
    \/ FilterInvoke
    \/ \E resp \in FilterOutcomes : FilterResume(resp)
    \/ AnalyzeInvoke
    \/ \E resp \in AnalysisOutcomes : AnalyzeResume(resp)
    \/ SynthesizeInvoke
    \/ \E resp \in SynthOutcomes : SynthesizeResume(resp)

Next ==
    \/ \E m \in {"invoke", "stream"}, query \in Queries : Start(m, query)
    \/ EngineNext
    \/ StreamConsume
    \/ InvokeSettle
    \/ StreamSettle
    \/ RaiseCancel

Spec == Init /\ [][Next]_vars

\* the steps of a run nobody asks to stop: RaiseCancel changes cancelAt
\* only, which no action reads
FairNext ==
    \/ \E m \in {"invoke", "stream"}, query \in Queries : Start(m, query)
    \/ EngineNext
    \/ StreamConsume
    \/ InvokeSettle
    \/ StreamSettle

\* every collaborator call returns or raises, and the engine keeps stepping
FairSpec == Init /\ [][FairNext]_vars /\ WF_vars(EngineNext)

----------------------------------------------------------------------------
(* One run of the graph as a function of its collaborator outcomes *)

\* a run between two collaborator calls: the channel values, the node that
\* runs next and what analyzeResults has gathered
Cfg(state, node, steps) == [st |-> state, pc |-> node, steps |-> steps]

\* a node function has returned res, having been given input
NodeReturn(node, input, res) ==
    IF res.ok
    THEN LET next == ApplyUpdate(input, res.val)
         IN  Cfg(next, RouteAfter(node, next), << >>)
    ELSE Cfg(input, "threw", << >>)

\* the engine runs on from c until a node awaits a collaborator call or the
\* graph has ended: a node whose guard fails, and analyzeResults when its
\* loop is over or reading its next entry throws, return without a call
RECURSIVE RunToCall(_)
RunToCall(c) ==
    CASE c.pc = "relevance_filter" /\ NoSearchResults(c.st) ->
            RunToCall(NodeReturn(c.pc, c.st,
                                 Ok(ErrorUpdate(Str("No search results to filter")))))
      [] c.pc = "deep_analysis" /\ NoRelevantResults(c.st) ->
            RunToCall(NodeReturn(c.pc, c.st,
                                 Ok(ErrorUpdate(Str("No relevant results to analyze")))))
      [] c.pc = "deep_analysis" /\ ~NoRelevantResults(c.st)
              /\ AnalyzeAdvance(c.st, c.steps).next = "return" ->
            RunToCall(NodeReturn(c.pc, c.st, AnalyzeAdvance(c.st, c.steps).res))
      [] c.pc = "synthesis" /\ NoAnalyses(c.st) ->
            RunToCall(NodeReturn(c.pc, c.st,
                                 Ok(ErrorUpdate(Str("No analyses to synthesize")))))
      [] OTHER -> c

\* the call the node of c awaits has ended with out
OnOutcome(c, out) ==
    CASE c.pc = "query_parser" -> NodeReturn(c.pc, c.st, parseQuery(c.st, out))
      [] c.pc = "search" -> NodeReturn(c.pc, c.st, search(c.st, out))
      [] c.pc = "relevance_filter" ->
            NodeReturn(c.pc, filterRelevanceInput(c.st, out), filterRelevance(c.st, out))
      [] c.pc = "deep_analysis" ->
            LET turn == analyzeTurnTry(resultsToAnalyze(c.st)[Len(c.steps) + 1], out)
            IN  IF turn.ok THEN Cfg(c.st, c.pc, Append(c.steps, turn.val))
                ELSE NodeReturn(c.pc, c.st, analyzeCatch(turn.msg))
      [] c.pc = "synthesis" -> NodeReturn(c.pc, c.st, synthesizeFindings(c.st, out))

\* graph.invoke / graph.stream on a fresh set of channels
StartCfg(query) ==
    RunToCall(Cfg(ApplyUpdate(ChannelDefaults, InitialState(query)), "query_parser", << >>))

\* the run of query alone, after its collaborators gave the outcomes of script
RECURSIVE Replay(_, _)
Replay(query, script) ==
    IF script = << >> THEN StartCfg(query)
    ELSE RunToCall(OnOutcome(Replay(query, SubSeq(script, 1, Len(script) - 1)),
                             script[Len(script)]))

----------------------------------------------------------------------------
(* Concurrent calls of the facade *)

(* Two calls of executeResearch / executeResearchStreaming and any number of
   calls of initializeAgent, interleaved where JavaScript can interleave them:
   at the awaits, that is at the collaborator calls.  Each call of
   graph.invoke / graph.stream has its own channels.  An array is an object:
   the state holds searchResults by reference into heap, so that a node that
   changes the array in place changes it for every holder of the reference. *)

\* the variables of the single run of Spec
runVars == <<mode, queryArg, engineVars, facadeVars, chunks, cancelAt>>

\* collaborator outcomes of the concurrent runs
ConcOutcomes(node) ==
    CASE node = "query_parser" ->
            {LLMRaise(Str("429 rate limit")), LLMReply(<<WS, "X migration guide", WS>>)}
      [] node = "search" ->
            {[kind |-> "raise", msg |-> Str("429 rate limit")],
             [kind |-> "json_array", items |-> <<[score |-> 7, len |-> 201]>>],
             [kind |-> "json_array",
              items |-> <<[score |-> 7, len |-> 201], [score |-> 9, len |-> 201]>>]}
      [] node = "relevance_filter" ->
            {LLMRaise(Str("429 rate limit")), LLMReply([json |-> "invalid"]),
             LLMReply([json |-> "array", items |-> <<2, 0>>])}
      [] node = "deep_analysis" ->
            {LLMRaise(Str("429 rate limit")), LLMReply(<<"upgrade the dependency", WS>>)}
      [] node = "synthesis" ->
            {LLMRaise(Str("429 rate limit")),
             LLMReply([json |-> "object", obj |-> [notes |-> <<"note 1">>]])}

\* executeSearch with one module-level array for its results
AllocResults_Shared(h) == 1

\* executeSearch builds its result with map and filter: a new array each call
AllocResults(h) == Len(h) + 1

\* the array at ref becomes arr
WriteHeap(h, ref, arr) ==
    IF ref = Len(h) + 1 THEN Append(h, arr) ELSE [h EXCEPT ![ref] = arr]

HasResults(state) == "searchResults" \in DOMAIN state

\* the state object of a run as its nodes read it
View(run) ==
    IF HasResults(run.st)
    THEN [run.st EXCEPT !.searchResults = heap[run.st.searchResults.ref]]
    ELSE run.st

\* the reference under which a run holds the searchResults of state after
RefOf(run, after) ==
    IF HasResults(run.st) THEN run.st.searchResults.ref ELSE AllocResults(heap)

\* a call of initializeAgent on its own
CInitializeAgent ==
    /\ agentGraph' = initializeAgent(agentGraph, buildCount).graph
    /\ buildCount' = initializeAgent(agentGraph, buildCount).builds
    /\ UNCHANGED <<cliVars, concVars, runVars>>

\* executeResearch (m = "invoke") or executeResearchStreaming (m = "stream")
\* up to the first await of the first node
CStart(r, m, query) ==
    /\ runs[r].phase = "idle"
    /\ agentGraph' = initializeAgent(agentGraph, buildCount).graph
    /\ buildCount' = initializeAgent(agentGraph, buildCount).builds
    /\ LET c == StartCfg(query)
       IN  runs' = [runs EXCEPT ![r] =
                       [phase |-> "running", mode |-> m, query |-> query,
                        graph |-> initializeAgent(agentGraph, buildCount).graph,
                        st |-> c.st, pc |-> c.pc, steps |-> c.steps,
                        script |-> << >>]]
    /\ UNCHANGED <<cliVars, heap, runVars>>

\* the collaborator call run r awaits ends with out, and the run goes on to
\* its next await or to the end of the graph
CResume(r) ==
    /\ runs[r].phase = "running"
    /\ runs[r].pc \in Nodes
    /\ \E out \in ConcOutcomes(runs[r].pc) :
          LET run == runs[r]
              after == RunToCall(OnOutcome(Cfg(View(run), run.pc, run.steps), out))
              ref == RefOf(run, after.st)
          IN  /\ runs' = [runs EXCEPT ![r] =
                             [run EXCEPT
                                 !.st = IF HasResults(after.st)
                                        THEN [after.st EXCEPT !.searchResults = [ref |-> ref]]
                                        ELSE after.st,
                                 !.pc = after.pc,
                                 !.steps = after.steps,
                                 !.script = Append(run.script, out)]]
              /\ heap' = IF HasResults(after.st)
                         THEN WriteHeap(heap, ref, after.st.searchResults)
                         ELSE heap
    /\ UNCHANGED <<cliVars, agentGraph, buildCount, runVars>>

ConcNext ==
    \/ CInitializeAgent
    \/ \E r \in RunIds, m \in {"invoke", "stream"}, query \in Queries : CStart(r, m, query)
    \/ \E r \in RunIds : CResume(r)

ConcSpec == Init /\ [][ConcNext]_vars

----------------------------------------------------------------------------
(* The terminal interface drives the streaming entry point *)

\* TextInput.onChange: the user edits the text of the input
CliType(v) ==
    /\ TextInputShown(cli)
    /\ cli' = [cli EXCEPT !.query = v]
    /\ UNCHANGED <<concVars, graphVars, engineVars, facadeVars, chunks, cancelAt>>

\* Return in the input: QueryInput.handleSubmit, App.handleSubmit and
\* executeQuery up to its await
CliSubmit ==
    /\ TextInputShown(cli)
    /\ SubmitAccepted(cli)
    /\ cli' = executeQueryBegin(cli)
    /\ BeginRun("stream", Trim(cli.query))

\* one turn of the for await loop calls the callback of executeQuery
CliOnUpdate ==
    /\ ForAwaitTurn
    /\ cli' = onUpdate(cli, Head(chunks).values)

\* executeResearchStreaming settles and executeQuery resumes after its await
CliSettle ==
    /\ AfterForAwait
    /\ cli' = executeQueryEnd(cli, outcome', thrown')

\* Ctrl+R reaches the key handler of App
CliCtrlR ==
    /\ cli.mounted
    /\ cli' = onCtrlR(cli)
    /\ UNCHANGED <<concVars, graphVars, engineVars, facadeVars, chunks, cancelAt>>

\* Ctrl+C reaches the key handler of App
CliCtrlC ==
    /\ cli.mounted
    /\ cli' = onCtrlC(cli)
    /\ UNCHANGED <<concVars, graphVars, engineVars, facadeVars, chunks, cancelAt>>

CliNext ==
    \/ \E v \in TypedTexts : CliType(v)
    \/ CliSubmit
    \/ EngineNext
    \/ CliOnUpdate
    \/ CliSettle
    \/ CliCtrlR
    \/ CliCtrlC

\* the agent as the terminal interface runs it: every run is started by a
\* submitted query
CliSpec == Init /\ [][CliNext]_vars

----------------------------------------------------------------------------
(* Properties *)

Started == outcome # "none"
Settled == outcome \in {"resolved", "rejected"}
Ended == Started /\ pc = END

TotalExec ==
    nodeExec["query_parser"] + nodeExec["search"] + nodeExec["relevance_filter"]
    + nodeExec["deep_analysis"] + nodeExec["synthesis"]

\* the run was ended by a Search execution, and every Search execution of the
\* run found insufficient results
AllSearchesInsufficient ==
    /\ Ended
    /\ lastStep.node = "search"
    /\ insufficient = nodeExec["search"]

\* C1: when every Search execution finds insufficient results and no Refine
\* fails, the run ends in error after exactly 2 retries: 3 Search executions,
\* 3 Refine executions, searchAttempts = 2.
C1_RetryBound ==
    AllSearchesInsufficient =>
        /\ st.status = "error"
        /\ st.error = Str("Could not find sufficient search results")
        /\ nodeExec["search"] = 3
        /\ nodeExec["query_parser"] = 3
        /\ st.searchAttempts = 2

C1_Witness ==
    /\ AllSearchesInsufficient
    /\ nodeExec["search"] = 3
    /\ st.searchAttempts = 2

\* C2 as stated: no run executes more than 7 nodes.
C2_AtMostSevenExecutions == Started => TotalExec <= 7

\* C2 amended: no run executes more than 9 nodes (3 Refine, 3 Search, and
\* Filter, Analyze, Synthesize once each), and a run that has executed 9 has
\* ended.
C2_AtMostNineExecutions ==
    Started =>
        /\ TotalExec <= 9
        /\ nodeExec["query_parser"] <= 3
        /\ nodeExec["search"] <= 3
        /\ nodeExec["relevance_filter"] <= 1
        /\ nodeExec["deep_analysis"] <= 1
        /\ nodeExec["synthesis"] <= 1
        /\ (TotalExec = 9 /\ inflight = "none" => pc = END)

C2_Witness == Ended /\ TotalExec = 9 /\ st.status = "complete"

\* C3: the final state a facade call returns is the state the graph ended
\* with, field for field, whichever entry point was used (so that the two
\* entry points return the same final state for the same query and the same
\* collaborator responses).
C3_SameFinalState == outcome = "resolved" => returned = <<st>>

\* C4: findings is set exactly when status is complete, and in status error
\* findings is unset and error is set.
C4_ReportIffComplete ==
    Started =>
        /\ ("findings" \in DOMAIN st) <=> (st.status = "complete")
        /\ st.status = "error" => "findings" \notin DOMAIN st /\ "error" \in DOMAIN st

C4_Witness == Ended /\ st.status = "complete" /\ "findings" \in DOMAIN st

\* C5: once error is set the status is error, and in status error the graph
\* has ended: no node is entered and no call is pending.
C5_ErrorIsTerminal ==
    Started =>
        /\ "error" \in DOMAIN st => st.status = "error"
        /\ st.status = "error" => pc = END /\ inflight = "none"

C5_Witness == Ended /\ st.status = "error" /\ lastStep.node = "deep_analysis"

RaisedStep == Started /\ lastStep.node \in Nodes /\ lastStep.raised

C7_NoErrorLeavesANode ==
    /\ escaped = << >>
    /\ pc # "threw"
    /\ lastStep.node \in Nodes => lastStep.ok
    /\ outcome = "rejected" =>
           /\ st.status = "error"
           /\ "error" \in DOMAIN st
           /\ thrown = st.error

\* a reply of the wrong shape (here to the synthesis prompt, or an entry of
\* relevantResults that is undefined) ended the run through the error field
C7_Witness ==
    /\ outcome = "rejected"
    /\ lastStep.node = "synthesis"
    /\ ~lastStep.raised
    /\ thrown = Str("Synthesis failed: ") \o TypeErrorMsg

NodeFailures ==
    { "Query parsing failed: ", "Search failed: ",
      "Could not find sufficient search results", "No search results to filter",
      "No relevant results to analyze", "Analysis failed: ",
      "No analyses to synthesize", "Synthesis failed: " }

C10_RetryCountRange == Started => st.searchAttempts \in 0..2

C10_Witness == Started /\ st.searchAttempts = 2 /\ pc = "search"

\* C11: every run terminates in status complete or error, given that every
\* collaborator call returns or raises and the engine keeps stepping: the
\* search -> query_parser loop does not repeat forever.  (The engine's cap of
\* MaxNodeExec executions is never what ends a run: C2_AtMostNineExecutions.)
C11_Terminates ==
    (outcome = "pending") ~> (pc = END /\ st.status \in {"complete", "error"})

\* the retry loop was used up and the run terminated
C11_Witness ==
    /\ outcome = "rejected"
    /\ pc = END
    /\ nodeExec["search"] = 3
    /\ insufficient = 3

\* C12: however calls of initializeAgent, executeResearch and
\* executeResearchStreaming follow or interleave, buildResearchGraph runs at
\* most once, and every call obtains the one graph it made.
C12_BuiltOnce ==
    /\ buildCount <= 1
    /\ agentGraph \in {NullGraph, 1}
    /\ \A r \in RunIds : runs[r].phase # "idle" => runs[r].graph = 1 /\ agentGraph = 1

\* both entry points were called, the second while the first was running
C12_Witness ==
    /\ runs[1].phase = "running" /\ runs[1].mode = "invoke" /\ runs[1].pc = "search"
    /\ runs[2].phase = "running" /\ runs[2].mode = "stream" /\ runs[2].pc = "query_parser"
    /\ buildCount = 1

\* C13: each of two interleaved runs is, at every collaborator call and at
\* its end, in the state it would be in had it run alone with the same
\* collaborator outcomes.
C13_Isolated ==
    \A r \in RunIds :
        runs[r].phase # "idle" =>
            Cfg(View(runs[r]), runs[r].pc, runs[r].steps)
                = Replay(runs[r].query, runs[r].script)

\* run 1 took the catch branch of filterRelevance, which sorts its
\* searchResults in place, while run 2 was holding search results of its own
C13_Witness ==
    /\ runs[1].phase = "running" /\ runs[1].pc = "deep_analysis"
    /\ runs[1].script[Len(runs[1].script)].kind = "raise"
    /\ View(runs[1]).searchResults[1].score = 9
    /\ runs[2].phase = "running" /\ runs[2].pc = "relevance_filter"
    /\ View(runs[2]).searchResults[1].score = 7
    /\ Len(heap) = 2

\* the updates of the node executions of the run, in execution order
StepUpdates == [k \in 1..Len(stepLog) |-> stepLog[k].update]

\* onUpdate was called once for each of the first node executions, in order
CallbacksInOrder ==
    /\ Len(onUpdateLog) <= Len(stepLog)
    /\ onUpdateLog = SubSeq(StepUpdates, 1, Len(onUpdateLog))

EndedUsable(k) == Ended /\ unusable = {} /\ insufficient = k

\* C15: when the first k searches (k = 1 or 2) find insufficient results, the
\* next search finds sufficient ones and every other collaborator call gives
\* a usable outcome, the run ends in status complete with searchAttempts = k.
C15_RetryThenSuccess ==
    \A k \in {1, 2} :
        EndedUsable(k) /\ nodeExec["search"] = k + 1 =>
            /\ st.status = "complete"
            /\ st.searchAttempts = k

C15_Witness ==
    /\ EndedUsable(1)
    /\ nodeExec["search"] = 2
    /\ st.status = "complete"
    /\ st.searchAttempts = 1

\* the nodes of the run that have returned, in execution order
StepNodes == [k \in 1..Len(stepLog) |-> stepLog[k].node]

\* C16: when the first search is sufficient and every collaborator call gives
\* a usable outcome (the filter reply holding at least one valid index), the
\* run executes query_parser, search, relevance_filter, deep_analysis and
\* synthesis once each, in that order, and ends in status complete with
\* findings.
C16_HappyPath ==
    EndedUsable(0) =>
        /\ StepNodes = <<"query_parser", "search", "relevance_filter",
                         "deep_analysis", "synthesis">>
        /\ \A n \in Nodes : nodeExec[n] = 1
        /\ st.status = "complete"
        /\ "findings" \in DOMAIN st

C16_Witness ==
    /\ EndedUsable(0)
    /\ TotalExec = 5
    /\ st.status = "complete"
    /\ Len(st.findings.migrationSteps) > 0

\* the elements of a sequence
Elems(seq) == {seq[k] : k \in 1..Len(seq)}

\* sel is the min(5, n) highest-scoring of the n hits of raw, each once, in
\* descending order of score
IsTopFiveByScore(sel, raw) ==
    /\ Len(sel) = Min(5, Len(raw))
    /\ Elems(sel) \subseteq Elems(raw)
    /\ \A k, m \in 1..Len(sel) : k < m => sel[k].score >= sel[m].score /\ sel[k] # sel[m]
    /\ \A x \in Elems(raw) \ Elems(sel) : \A k \in 1..Len(sel) : x.score <= sel[k].score

\* the last node to return was relevance_filter, and the reply to its prompt
\* was not a list: text that is not JSON, or JSON that is not an array
FilterReplyNotAList ==
    /\ Started
    /\ lastStep.node = "relevance_filter"
    /\ lastStep.resp.kind = "reply"
    /\ lastStep.resp.text.json # "array"

AnalyzedWithoutRaise ==
    /\ Started
    /\ lastStep.node = "deep_analysis"
    /\ ~NoRelevantResults(st)
    /\ lastStep.resp.kind # "raise"

\* C18: given a non-empty relevantResults of length n, when no LLM call
\* raises analyzeResults returns exactly min(3, n) analysis steps, the i-th
\* made from the i-th entry of relevantResults with that entry's score as
\* its confidence, and sets status synthesizing.
C18_AnalyzeCap ==
    AnalyzedWithoutRaise =>
        /\ lastStep.update.status = "synthesizing"
        /\ "analysisSteps" \in DOMAIN lastStep.update
        /\ Len(lastStep.update.analysisSteps) = Min(3, Len(st.relevantResults))
        /\ \A i \in 1..Len(lastStep.update.analysisSteps) :
               /\ lastStep.update.analysisSteps[i].step = st.relevantResults[i].title
               /\ lastStep.update.analysisSteps[i].confidence = st.relevantResults[i].score

\* the last node to return was synthesis and its LLM call returned a reply
SynthesisReplied ==
    /\ Started
    /\ lastStep.node = "synthesis"
    /\ lastStep.resp.kind = "reply"

\* C19: whatever text the synthesis call returns, synthesizeFindings ends in
\* status complete with findings; when the text cannot be parsed (it is not
\* JSON), the summary is the text itself and migrationSteps, breakingChanges
\* and examples are empty.
C19_SynthesizeNeverFails ==
    SynthesisReplied =>
        /\ st.status = "complete"
        /\ "findings" \in DOMAIN st
        /\ lastStep.resp.text.json = "invalid" =>
               /\ st.findings.summary = lastStep.resp.text.raw
               /\ st.findings.migrationSteps = << >>
               /\ st.findings.breakingChanges = << >>
               /\ st.findings.examples = << >>

\* the last node to return was search, and its payload was a JSON array
SearchParsed ==
    /\ Started
    /\ lastStep.node = "search"
    /\ lastStep.resp.kind = "json_array"

\* the results executeSearch made of that payload
ParsedResults == executeSearch(lastStep.resp).val

\* C20: search accepts the results (goes on to filtering) exactly when one
\* single result has both a score above 0.7 and more than 200 characters of
\* content; an empty list is rejected, and so are two results that each meet
\* one of the two conditions.
C20_ValidationRule ==
    SearchParsed =>
        (lastStep.update.status = "filtering_results"
            <=> \E i \in 1..Len(ParsedResults) :
                    ParsedResults[i].score > 7 /\ ParsedResults[i].len > 200)

\* score 0.9 with 200 characters and score 0.7 with 201 characters: rejected
C20_Witness ==
    /\ SearchParsed
    /\ Len(ParsedResults) = 2
    /\ ParsedResults[1].score > 7 /\ ParsedResults[2].len > 200
    /\ lastStep.update.status = "parsing_query"

\* a Search execution reached through the back-edge starts: search reads its
\* query and calls executeSearch, sentQuery still holding the query the
\* execution before it sent
RetrySearchStarts ==
    /\ Started
    /\ pc = "search"
    /\ inflight = "none"
    /\ inflight' = "search"
    /\ st.searchAttempts > 0

\* C21: on a retry the query that the next Search execution sends to the
\* search collaborator is the query the execution before it sent with the
\* suffix " official documentation breaking changes" appended.
C21_RetryUsesSuffixedQuery ==
    [][RetrySearchStarts => sentQuery' = sentQuery \o SUFFIX]_vars


\* the LLM call of a query_parser execution raises in this step
RefineRaises ==
    /\ Started
    /\ pc = "query_parser"
    /\ inflight = "llm"
    /\ lastStep'.node = "query_parser"
    /\ lastStep'.raised

\* the last node execution of the run was a query_parser whose LLM call raised
RefineFailed == Started /\ lastStep.node = "query_parser" /\ lastStep.raised

\* the step does not start another run
SameRun == ~(outcome # "pending" /\ outcome' = "pending")

\* C22: when the LLM call of a query_parser execution raises, the first one
\* or one reached through the back-edge, the node sets status error and an
\* error text and leaves searchAttempts as it was, the graph ends, and for
\* the rest of the run no node is executed and no search is made.
C22_RefineFailureIsFatal ==
    [][/\ RefineRaises =>
            /\ st'.status = "error"
            /\ TruthyStr(st', "error")
            /\ st'.searchAttempts = st.searchAttempts
            /\ pc' = END
       /\ RefineFailed /\ SameRun =>
            /\ pc' = END
            /\ st' = st
            /\ nodeExec' = nodeExec
            /\ searchCalls' = searchCalls
            /\ inflight' = "none"]_vars

\* the LLM call raised in the query_parser execution that followed a retry
C22_Witness ==
    /\ RefineFailed
    /\ pc = END
    /\ nodeExec["query_parser"] = 2
    /\ nodeExec["search"] = 1
    /\ st.searchAttempts = 1
    /\ st.status = "error"


\* the search collaborator raised, or returned a payload that is not JSON
TransportFailure(out) == out.kind \in {"raise", "text"}

\* the call of a search execution ends that way in this step
SearchTransportFails ==
    /\ Started
    /\ pc = "search"
    /\ inflight = "search"
    /\ lastStep'.node = "search"
    /\ TransportFailure(lastStep'.resp)

\* the last node execution of the run was a search whose call ended that way
SearchTransportFailed ==
    Started /\ lastStep.node = "search" /\ TransportFailure(lastStep.resp)

\* C23: when the call of the search collaborator raises or returns a payload
\* that cannot be parsed, on whichever attempt, search sets status error and
\* an error text and leaves searchAttempts as it was (also when it is below
\* 2), the graph ends, and no node is executed for the rest of the run.
C23_SearchFailureIsFatal ==
    [][/\ SearchTransportFails =>
            /\ st'.status = "error"
            /\ TruthyStr(st', "error")
            /\ st'.searchAttempts = st.searchAttempts
            /\ pc' = END
       /\ SearchTransportFailed /\ SameRun =>
            /\ pc' = END
            /\ st' = st
            /\ nodeExec' = nodeExec
            /\ searchCalls' = searchCalls
            /\ llmCalls' = llmCalls
            /\ inflight' = "none"]_vars

\* the payload of the second search was not JSON, with searchAttempts at 1
C23_Witness ==
    /\ SearchTransportFailed
    /\ lastStep.resp.kind = "text"
    /\ pc = END
    /\ nodeExec["search"] = 2
    /\ st.searchAttempts = 1
    /\ st.status = "error"


\* relevance_filter has returned an empty relevantResults
FilterGaveNothing ==
    /\ Started
    /\ "relevantResults" \in DOMAIN st
    /\ st.relevantResults = << >>

\* C24: when relevance_filter returns an empty relevantResults (the reply was
\* an empty list, or held only indices out of range), deep_analysis makes no
\* LLM call and sets status error with the text "No relevant results to
\* analyze", and synthesis is never executed.
C24_NothingToAnalyze ==
    FilterGaveNothing =>
        /\ nodeExec["synthesis"] = 0
        /\ \/ /\ lastStep.node = "relevance_filter"
              /\ pc = "deep_analysis"
              /\ inflight = "none"
           \/ /\ lastStep.node = "deep_analysis"
              /\ lastStep.resp = NoCall
              /\ llmCalls = nodeExec["query_parser"] + 1
              /\ st.status = "error"
              /\ st.error = Str("No relevant results to analyze")
              /\ pc = END

C24_Witness ==
    /\ FilterGaveNothing
    /\ stepLog[Len(stepLog) - 1].node = "relevance_filter"
    /\ lastStep.node = "deep_analysis"
    /\ st.status = "error"
    /\ pc = END


\* the last node to return was relevance_filter, and the reply to its prompt
\* was a JSON list
FilterRepliedList ==
    /\ Started
    /\ lastStep.node = "relevance_filter"
    /\ lastStep.resp.kind = "reply"
    /\ lastStep.resp.text.json = "array"

\* how often x occurs in seq
Occurrences(x, seq) == Cardinality({k \in 1..Len(seq) : seq[k] = x})

\* the search results at the entries of reply that are positions of raw, in
\* the order of reply
HitsInReplyOrder(raw, reply) ==
    LET valid == SelectSeq(reply, LAMBDA h : ValidIndex(raw, h))
    IN  [k \in 1..Len(valid) |-> raw[(valid[k] \div 2) + 1]]

\* C25: when the reply to the filter prompt is a list, relevantResults is the
\* search results at the in-range indices of the reply, in reply order; every
\* entry of relevantResults is an entry of searchResults, and none occurs in
\* relevantResults more often than in searchResults.
C25_FilterSubset ==
    FilterRepliedList =>
        /\ st.relevantResults = HitsInReplyOrder(st.searchResults, lastStep.resp.text.items)
        /\ \A k \in 1..Len(st.relevantResults) :
               st.relevantResults[k] \in Elems(st.searchResults)
        /\ \A x \in Elems(st.relevantResults) :
               Occurrences(x, st.relevantResults) <= Occurrences(x, st.searchResults)


\* a node function returns in this step
NodeReturns ==
    /\ Started
    /\ pc \in Nodes
    /\ Len(stepLog') = Len(stepLog) + 1

\* C26: no node changes the state object it was given: when a node returns,
\* the channels are the ones it was given with its returned update merged in,
\* and every field the update does not hold (searchResults and the order of
\* its entries in particular) is as it was before the node ran.
C26_NodesDoNotMutate ==
    [][NodeReturns =>
          /\ st' = ApplyUpdate(st, lastStep'.update)
          /\ \A key \in DOMAIN st \ DOMAIN lastStep'.update : st'[key] = st[key]]_vars


\* the last node to return was relevance_filter
FilterReturned == Started /\ lastStep.node = "relevance_filter"

RunJustStarted == outcome = "pending" /\ lastStep = NoStep

\* C28: every run, a first one as well as one that follows a run that has
\* settled, starts from the caller's query, status parsing_query,
\* searchAttempts 0 and no messages, with enhancedQuery, searchResults,
\* relevantResults, analysisSteps, findings and error unset, and enters the
\* graph at query_parser.
C28_InitialState ==
    RunJustStarted =>
        /\ DOMAIN st = {"query", "status", "searchAttempts", "messages"}
        /\ st.query \in Queries
        /\ st.status = "parsing_query"
        /\ st.searchAttempts = 0
        /\ st.messages = << >>
        /\ pc = "query_parser"
        /\ stepLog = << >>

\* the first node of a streaming run awaits its LLM call
C28_Witness ==
    /\ RunJustStarted
    /\ mode = "stream"
    /\ inflight = "llm"
    /\ nodeExec["query_parser"] = 1
    /\ st.status = "parsing_query"


\* a is a prefix of b
IsPrefix(a, b) == Len(a) <= Len(b) /\ SubSeq(b, 1, Len(a)) = a

\* C29: messages is append-only: in every step of a run, node executions on
\* the retry loop included, messages after the step has messages before the
\* step as a prefix.
C29_MessagesAppendOnly ==
    [][Started /\ SameRun => IsPrefix(st.messages, st'.messages)]_vars

\* query_parser has run three times, and messages holds its three exchanges
C29_Witness ==
    /\ Started
    /\ nodeExec["query_parser"] = 3
    /\ Len(st.messages) = 6
    /\ st.messages[1] = HumanMessage(st.query)
    /\ st.messages[2] # st.messages[4]


\* C30: query is immutable: in every state of a run the query channel holds
\* the text the entry point was called with, and no update returned by a node
\* holds the key query.
C30_QueryImmutable ==
    Started =>
        /\ st.query = queryArg
        /\ \A k \in 1..Len(stepLog) : "query" \notin DOMAIN stepLog[k].update

\* all five nodes have returned, query_parser and search more than once
C30_Witness ==
    /\ Ended
    /\ st.status = "complete"
    /\ nodeExec["query_parser"] = 2
    /\ Len(stepLog) = 7
    /\ st.query = queryArg
    /\ st.enhancedQuery # st.query


\* the node whose execution nodeCalls counts: the one awaiting a call, or
\* else the one that returned last
CountedNode == IF inflight # "none" THEN pc ELSE lastStep.node

\* C31: a query_parser, relevance_filter or synthesis execution makes at
\* most one LLM call and a search execution exactly one search call; a
\* deep_analysis execution makes its LLM calls one at a time, the k-th after
\* k - 1 replies were taken in, one per result it analyzes and at most 3, and
\* returns at the first call that raises.
C31_CallsPerExecution ==
    Started =>
        /\ inflight # "none" => pc \in Nodes /\ nodeCalls >= 1
        /\ CountedNode \in {"query_parser", "relevance_filter", "synthesis"} =>
               nodeCalls <= 1
        /\ CountedNode = "search" => nodeCalls = 1
        /\ searchCalls = nodeExec["search"]
        /\ CountedNode = "deep_analysis" =>
               /\ nodeCalls <= 3
               /\ nodeCalls <= Len(st.relevantResults)
               /\ inflight = "llm" => nodeCalls = Len(analysisSteps) + 1
               /\ inflight = "none" /\ lastStep.update.status = "synthesizing" =>
                      nodeCalls = Len(lastStep.update.analysisSteps)
               /\ inflight = "none" /\ lastStep.raised =>
                      pc = END /\ "analysisSteps" \notin DOMAIN st
        /\ llmCalls <= nodeExec["query_parser"] + nodeExec["relevance_filter"]
                       + 3 * nodeExec["deep_analysis"] + nodeExec["synthesis"]

\* five results were kept, three were analyzed, each with a call of its own
C31_Witness ==
    /\ Started
    /\ lastStep.node = "deep_analysis"
    /\ inflight = "none"
    /\ Len(st.relevantResults) = 5
    /\ nodeCalls = 3
    /\ st.status = "synthesizing"


\* the run has ended in status complete
Completed == Ended /\ st.status = "complete"

C33_OnUpdateGetsFullState ==
    mode = "stream" /\ Started =>
        \A k \in 1..Len(onUpdateLog) :
            /\ "query" \in DOMAIN onUpdateLog[k]
            /\ onUpdateLog[k].query = queryArg
            /\ \A j \in 1..k : DOMAIN stepLog[j].update \subseteq DOMAIN onUpdateLog[k]


\* the status each node is documented to be given
IncomingStatus(node) ==
    CASE node = "query_parser" -> "parsing_query"
      [] node = "search" -> "searching"
      [] node = "relevance_filter" -> "filtering_results"
      [] node = "deep_analysis" -> "analyzing"
      [] node = "synthesis" -> "synthesizing"

\* C34: a node is only ever run with the status documented for it:
\* query_parser with parsing_query, search with searching, relevance_filter
\* with filtering_results, deep_analysis with analyzing, synthesis with
\* synthesizing.
C34_IncomingStatus ==
    Started /\ pc \in Nodes => st.status = IncomingStatus(pc)

\* query_parser runs again after a retry
C34_Witness ==
    /\ Started
    /\ pc = "query_parser"
    /\ inflight = "llm"
    /\ st.searchAttempts = 2
    /\ st.status = "parsing_query"


\* the search executions of the run so far that found insufficient results
\* and went back to query_parser
LoopedBack ==
    Cardinality({k \in 1..Len(stepLog) :
                    /\ stepLog[k].node = "search"
                    /\ stepLog[k].update.status = "parsing_query"})

\* C35: at every point of a run searchAttempts is the number of search
\* executions so far that found insufficient results and looped back; when
\* the run has ended, query_parser has run searchAttempts + 1 times and
\* search searchAttempts or searchAttempts + 1 times.
C35_CounterConsistency ==
    Started =>
        /\ st.searchAttempts = LoopedBack
        /\ pc = END =>
               /\ nodeExec["query_parser"] = st.searchAttempts + 1
               /\ nodeExec["search"] \in {st.searchAttempts, st.searchAttempts + 1}

\* the run ended in the query_parser execution that followed the second retry
C35_Witness ==
    /\ Ended
    /\ st.searchAttempts = 2
    /\ nodeExec["search"] = 2
    /\ nodeExec["query_parser"] = 3
    /\ LoopedBack = 2


\* C36: whenever searchResults is set it is non-empty and holds a result
\* with a score above 0.7 and more than 200 characters of content; a search
\* execution that found insufficient results, or failed, returns no
\* searchResults, so on the retry path the channel stays as it was (unset).
C36_StoredResultsAreValid ==
    Started =>
        /\ "searchResults" \in DOMAIN st =>
               /\ Len(st.searchResults) > 0
               /\ \E i \in 1..Len(st.searchResults) :
                      st.searchResults[i].score > 7 /\ st.searchResults[i].len > 200
        /\ \A k \in 1..Len(stepLog) :
               stepLog[k].node = "search" /\ stepLog[k].update.status # "filtering_results"
                   => "searchResults" \notin DOMAIN stepLog[k].update
        /\ st.status = "parsing_query" => "searchResults" \notin DOMAIN st

\* after a retry, two results were stored, the first of which alone would
\* not have passed
C36_Witness ==
    /\ Started
    /\ st.searchAttempts = 1
    /\ st.status = "filtering_results"
    /\ Len(st.searchResults) = 2
    /\ st.searchResults[1].score = 7
    /\ st.searchResults[2].score = 9


\* C37: in every state with status complete, searchResults and
\* relevantResults are non-empty, analysisSteps has min(3, n) entries (1 to
\* 3) for the n relevant results, error is unset, and findings.sources is the
\* urls of the first min(5, n) relevant results, in order.
C37_CompleteState ==
    Started /\ st.status = "complete" =>
        /\ "searchResults" \in DOMAIN st /\ Len(st.searchResults) > 0
        /\ "relevantResults" \in DOMAIN st /\ Len(st.relevantResults) > 0
        /\ "analysisSteps" \in DOMAIN st
        /\ Len(st.analysisSteps) = Min(3, Len(st.relevantResults))
        /\ Len(st.analysisSteps) \in 1..3
        /\ "error" \notin DOMAIN st
        /\ Len(st.findings.sources) = Min(5, Len(st.relevantResults))
        /\ \A k \in 1..Len(st.findings.sources) :
               st.findings.sources[k] = st.relevantResults[k].url

\* six results were kept, in the reverse of the order they were found in:
\* three were analyzed and five are listed as sources
C37_Witness ==
    /\ Started
    /\ st.status = "complete"
    /\ Len(st.relevantResults) = 6
    /\ Len(st.analysisSteps) = 3
    /\ st.findings.sources = <<6, 5, 4, 3, 2>>


\* the last node to return was deep_analysis, and an LLM call of it raised
\* after at least one result had been analyzed
AnalyzeRaisedLate ==
    /\ Started
    /\ lastStep.node = "deep_analysis"
    /\ lastStep.raised
    /\ nodeCalls >= 2

\* C38: when an LLM call of deep_analysis raises after some results were
\* analyzed, the node returns status error and an error text only:
\* analysisSteps stays unset, no further result is analyzed, and the run ends
\* without executing synthesis.
C38_NoPartialAnalysis ==
    AnalyzeRaisedLate =>
        /\ DOMAIN lastStep.update = {"status", "error"}
        /\ lastStep.update.status = "error"
        /\ Head(st.error) = "Analysis failed: "
        /\ "analysisSteps" \notin DOMAIN st
        /\ inflight = "none"
        /\ llmCalls = nodeExec["query_parser"] + 1 + nodeCalls
        /\ pc = END
        /\ nodeExec["synthesis"] = 0

\* the second of three calls raised
C38_Witness ==
    /\ AnalyzeRaisedLate
    /\ nodeCalls = 2
    /\ Len(st.relevantResults) >= 3
    /\ st.status = "error"
    /\ pc = END


\* the error texts of the guards of filterRelevance and synthesizeFindings
GuardTexts ==
    {Str("No search results to filter"), Str("No analyses to synthesize")}

\* C39: in a run started through an entry point the guards of
\* relevance_filter ("No search results to filter") and of synthesis ("No
\* analyses to synthesize") never fire: relevance_filter is only run with a
\* non-empty searchResults and synthesis only with a non-empty analysisSteps.
C39_GuardsUnreachable ==
    Started =>
        /\ pc = "relevance_filter" =>
               "searchResults" \in DOMAIN st /\ Len(st.searchResults) > 0
        /\ pc = "synthesis" =>
               "analysisSteps" \in DOMAIN st /\ Len(st.analysisSteps) > 0
        /\ \A k \in 1..Len(stepLog) :
               "error" \in DOMAIN stepLog[k].update
                   => stepLog[k].update.error \notin GuardTexts

\* synthesis runs on the one analysis of the one result that was found
C39_Witness ==
    /\ Started
    /\ pc = "synthesis"
    /\ inflight = "llm"
    /\ Len(st.searchResults) = 1
    /\ Len(st.analysisSteps) = 1


----------------------------------------------------------------------------
(* C40 *)

\* a streaming run of the terminal interface has not settled
InFlight == outcome = "pending"

\* C40: while the interface is mounted, isLoading is true exactly from the
\* start of executeQuery until the streaming run has settled; a query in
\* flight stays the submitted one whatever keys arrive, so Ctrl+R is ignored
\* while it loads; the input accepts a query only when none is in flight, so
\* at most one is; and once a reset has cleared the state no run is left to
\* stream an update into it, so the state stays cleared until the next submit.
C40_ResetIgnoredWhileLoading ==
    cli.mounted =>
        /\ cli.isLoading <=> InFlight
        /\ InFlight => cli.hasSubmitted
        /\ TextInputShown(cli) => ~InFlight /\ chunks = << >>
        /\ ~cli.hasSubmitted => cli.state = << >>

\* Ctrl+R after a run that streamed updates and settled: the reset cleared
\* the state those updates had set, and the input is shown again
C40_Witness ==
    /\ cli.mounted
    /\ outcome \in {"resolved", "rejected"}
    /\ finalState # << >>
    /\ ~cli.hasSubmitted
    /\ ~cli.isLoading
    /\ cli.state = << >>

====
